---------------------------- MODULE Spec2Model ----------------------------
(***************************************************************************)
(* Concentric cone material and layout estimator (src/app.py).             *)
(*                                                                         *)
(* Lengths are integers in hundredths of an inch and areas in hundredths   *)
(* of a square inch, the resolution of the code's round(x, 2).  A value    *)
(* the code rounds is nearest-integer here; where the exact value lies     *)
(* half way between two hundredths the floating-point result may fall on   *)
(* either side, so both neighbours are possible outcomes.                  *)
(* sin is tabulated as a fraction (exact for 0, 30, 90, 150 and 270        *)
(* degrees, 2521/2911 for 60 and 120 degrees, relative error 2e-8) and pi  *)
(* is 355/113 (relative error 9e-8).                                       *)
(***************************************************************************)
EXTENDS Integers, Sequences, FiniteSets

\* ---------------------------------------------------------------- bounds
MaxSmallDiameter == 4
MaxLargeDiameterK == 2
MaxAngleK == 3

\* ------------------------------------------------------------- constants
BOTTOM_DIAMETER == 2

\* Python's None, where the other values are records
None == [type |-> "None"]

Materials == {"Stainless Steel", "Carbon Steel"}

\* st.number_input("Tank Diameter"), widened to the values the functions accept
LargeDiameters == {1000 * k : k \in 1..MaxLargeDiameterK}

Diameters == (0..MaxSmallDiameter) \cup {168} \cup LargeDiameters

\* st.selectbox("Material of Construction (MOC)"); the large tanks are explored
\* with the carbon steel catalog only
MaterialsFor(d) == IF d \in LargeDiameters THEN {"Carbon Steel"} ELSE Materials

\* st.number_input("Angle of Repose"), which sets a minimum and no maximum:
\* multiples of 30 degrees and one reflex angle, widened likewise
Angles == {30 * k : k \in 0..MaxAngleK} \cup {270}

\* ------------------------------------------------------------ arithmetic
Abs(x) == IF x < 0 THEN -x ELSE x

\* math.floor(a / b)
FloorDiv(a, b) == IF b > 0 THEN a \div b ELSE (-a) \div (-b)

\* math.ceil(a / b), b > 0
CeilDiv(a, b) == -((-a) \div b)

\* round(a / b) for b > 0: the nearest integer, either neighbour on a tie
RoundChoices(a, b) ==
    LET q == a \div b
        r == a % b
    IN  IF 2 * r < b THEN {q}
        ELSE IF 2 * r > b THEN {q + 1}
        ELSE {q, q + 1}

\* round(a * b / c) for c > 0, without forming a * b
MulDivChoices(a, b, c) ==
    LET q == a \div c
        r == a % c
    IN  {q * b + v : v \in RoundChoices(r * b, c)}

\* round(a * b / c) for c > 0 even, half up, without forming a * b
MulDivRound(a, b, c) ==
    LET aq == a \div c
        ar == a % c
        bq == b \div c
        br == b % c
    IN  a * bq + aq * br + ((ar * br + (c \div 2)) \div c)

\* math.sin(math.radians(angle_deg)) as <<numerator, denominator>>
Sin(angle_deg) ==
    CASE angle_deg = 0 -> <<0, 1>>
      [] angle_deg \in {30, 150} -> <<1, 2>>
      [] angle_deg \in {60, 120} -> <<2521, 2911>>
      [] angle_deg = 90 -> <<1, 1>>
      [] angle_deg = 270 -> <<-1, 1>>

\* math.pi as <<numerator, denominator>>
Pi == <<355, 113>>

\* ---------------------------------------------------------------- catalog
StainlessLengths == <<96, 120, 144>> \o [k \in 1..301 |-> 179 + k]
CarbonLengths == <<240, 360, 480>>

Product(ws, ls) ==
    [k \in 1..(Len(ws) * Len(ls)) |->
        <<ws[((k - 1) \div Len(ls)) + 1], ls[((k - 1) % Len(ls)) + 1]>>]

StainlessPlates == <<>> \o Product(<<48, 60>>, StainlessLengths)
CarbonPlates == <<>> \o Product(<<96, 120>>, CarbonLengths)

get_plate_options(m) ==
    IF m = "Stainless Steel" THEN StainlessPlates ELSE CarbonPlates

\* plate_widths in calculate_courses_and_breaks, after plate_widths.sort()
plate_widths(m) == IF m = "Stainless Steel" THEN <<48, 60>> ELSE <<96, 120>>

\* plate_widths[0] taken for the maximum
first_width(m) == plate_widths(m)[1]

\* max(plate_widths)
max_width(m) ==
    CHOOSE w \in {plate_widths(m)[k] : k \in 1..Len(plate_widths(m))} :
        \A k \in 1..Len(plate_widths(m)) : plate_widths(m)[k] <= w

VARIABLES diameter, angle, moc, pc, error, total_slant, num_courses,
          course_slant_height, used_width, break_diameters,
          override_gores, caller, results, ui_results, best

vars == <<diameter, angle, moc, pc, error, total_slant, num_courses,
          course_slant_height, used_width, break_diameters,
          override_gores, caller, results, ui_results, best>>

Init ==
    /\ diameter \in Diameters
    /\ angle \in Angles
    /\ moc \in MaterialsFor(diameter)
    /\ pc = "slant"
    /\ error = "none"
    /\ total_slant = 0
    /\ num_courses = 0
    /\ course_slant_height = 0
    /\ used_width = 0
    /\ break_diameters = <<>>
    /\ override_gores = <<>>
    /\ caller = "none"
    /\ results = <<>>
    /\ ui_results = <<>>
    /\ best = None

\* --------------------------------------------- calculate_slant_height
\* slant = (r_large - r_small) / math.sin(angle_rad), rounded to 2 places;
\* the division raises ZeroDivisionError when the sine is 0.0
SlantChoices(d, angle_deg) ==
    LET num == 50 * (d - BOTTOM_DIAMETER) * Sin(angle_deg)[2]
        den == Sin(angle_deg)[1]
    IN  IF den > 0 THEN RoundChoices(num, den) ELSE RoundChoices(-num, -den)

SlantHeight ==
    /\ pc = "slant"
    /\ IF Sin(angle)[1] = 0
       THEN /\ pc' = "error"
            /\ error' = "ZeroDivisionError"
            /\ UNCHANGED <<total_slant, num_courses>>
       ELSE /\ \E s \in SlantChoices(diameter, angle) : total_slant' = s
            /\ num_courses' = 2
            /\ pc' = "loop"
            /\ UNCHANGED error
    /\ UNCHANGED <<diameter, angle, moc, course_slant_height, used_width,
                   break_diameters, override_gores, caller, results,
                   ui_results, best>>

\* --------------------------------------- calculate_courses_and_breaks
\* total_slant / num_courses > max_width
ExceedsWidth(total, n, w) == total > 100 * w * n

\* the increment left out
SameCourseCount(n) == n

\* num_courses += 1
NextCourseCount(n) == n + 1

CourseLoopStep ==
    /\ pc = "loop"
    /\ ExceedsWidth(total_slant, num_courses, max_width(moc))
    /\ num_courses' = NextCourseCount(num_courses)
    /\ UNCHANGED <<diameter, angle, moc, pc, error, total_slant,
                   course_slant_height, used_width, break_diameters,
                   override_gores, caller, results, ui_results, best>>

\* next((w for w in plate_widths if w >= course_slant), max_width)
UsedWidth(total, n, m) ==
    LET ws == plate_widths(m)
        fits == {k \in 1..Len(ws) : 100 * ws[k] * n >= total}
    IN  IF fits = {} THEN max_width(m)
        ELSE ws[CHOOSE k \in fits : \A j \in fits : k <= j]

CourseLoopExit ==
    /\ pc = "loop"
    /\ ~ExceedsWidth(total_slant, num_courses, max_width(moc))
    /\ \E c \in RoundChoices(total_slant, num_courses) : course_slant_height' = c
    /\ used_width' = UsedWidth(total_slant, num_courses, moc)
    /\ break_diameters' = <<>>
    /\ pc' = "breaks"
    /\ UNCHANGED <<diameter, angle, moc, error, total_slant, num_courses,
                   override_gores, caller, results, ui_results, best>>

\* round(2 * (bottom_radius + (total_slant - i * course_slant) * sin), 2)
BreakDiameterChoices(total, n, i, angle_deg) ==
    {100 * BOTTOM_DIAMETER + v :
        v \in MulDivChoices(2 * total * (n - i), Sin(angle_deg)[1],
                            n * Sin(angle_deg)[2])}

AppendBreak ==
    /\ pc = "breaks"
    /\ Len(break_diameters) < num_courses + 1
    /\ \E b \in BreakDiameterChoices(total_slant, num_courses,
                                     Len(break_diameters), angle) :
           break_diameters' = Append(break_diameters, b)
    /\ UNCHANGED <<diameter, angle, moc, pc, error, total_slant, num_courses,
                   course_slant_height, used_width, override_gores, caller,
                   results, ui_results, best>>

\* the returned course_info
ReturnCourseInfo ==
    /\ pc = "breaks"
    /\ Len(break_diameters) = num_courses + 1
    /\ pc' = "ui"
    /\ UNCHANGED <<diameter, angle, moc, error, total_slant, num_courses,
                   course_slant_height, used_width, break_diameters,
                   override_gores, caller, results, ui_results, best>>

\* ---------------------------------- estimate_plate_usage_per_course
\* (option["plates"], option["waste"]) < (best["plates"], best["waste"])
TupleLess(a, b) == a[1] < b[1] \/ (a[1] = b[1] /\ a[2] < b[2])

\* segments_fit = math.floor(plate_length / arc_width), where
\* arc_width = (2 * math.pi / segs) * (r_outer + r_inner) / 2
\* and v is d_top + d_bottom
SegmentsFit(v, segs, plate_length) ==
    FloorDiv(plate_length * 200 * Pi[2] * segs, Pi[1] * v)

\* round(arc_width, 2)
GoreWidth(v, segs) ==
    (2 * Pi[1] * v + 2 * Pi[2] * segs) \div (4 * Pi[2] * segs)

\* math.floor in place of math.ceil
PlatesNeededFloor(segs, segments_fit) == segs \div segments_fit

\* plates_needed = math.ceil(segs / segments_fit)
PlatesNeeded(segs, segments_fit) == CeilDiv(segs, segments_fit)

\* segs * segment_area = math.pi * r_outer ** 2 - math.pi * r_inner ** 2
AnnulusArea(d_top, d_bottom) ==
    MulDivRound(Pi[1] * (d_top + d_bottom), d_top - d_bottom, 400 * Pi[2])

\* waste = round(plates_needed * plate_area - segs * segment_area, 2)
Waste(plates_needed, plate, d_top, d_bottom) ==
    100 * plates_needed * plate[1] * plate[2] - AnnulusArea(d_top, d_bottom)

\* One pass of the body of the inner loop: the option built for (segs, plate),
\* or None when either fit test skips the plate
Option(course, d_top, d_bottom, slant, segs, plate) ==
    IF slant > 100 * plate[1] THEN None
    ELSE LET segments_fit == SegmentsFit(d_top + d_bottom, segs, plate[2])
         IN  IF segments_fit <= 0 THEN None
             ELSE LET plates_needed == PlatesNeeded(segs, segments_fit)
                  IN  [course |-> course,
                       segments |-> segs,
                       fit |-> segments_fit,
                       plates |-> plates_needed,
                       plate_width |-> plate[1],
                       plate_length |-> plate[2],
                       waste |-> Waste(plates_needed, plate, d_top, d_bottom),
                       gore_width |-> GoreWidth(d_top + d_bottom, segs),
                       plates_type |-> "int"]

\* if best_option is None or (plates, waste) of option < that of best_option
Keep(best_option, option) ==
    IF option = None THEN best_option
    ELSE IF best_option = None THEN option
    ELSE IF TupleLess(<<option.plates, option.waste>>,
                      <<best_option.plates, best_option.waste>>)
         THEN option
         ELSE best_option

\* for segs in range(2, 13, 2)
SegmentCounts == <<2, 4, 6, 8, 10, 12>>

\* The option built by the k-th pass of the nested loops (segs outer, plate
\* inner), or None when the pass is skipped
Pass(course, d_top, d_bottom, slant, plate_options, k) ==
    Option(course, d_top, d_bottom, slant,
           SegmentCounts[((k - 1) \div Len(plate_options)) + 1],
           plate_options[((k - 1) % Len(plate_options)) + 1])

\* best_option after passes lo..hi, starting from None.  The update keeps the
\* earlier option unless the later one is strictly smaller, so the result of
\* a range of passes is Keep of the results of its two halves.
RECURSIVE Scan(_, _, _)
Scan(opts, lo, hi) ==
    IF lo = hi
    THEN opts[lo]
    ELSE Keep(Scan(opts, lo, (lo + hi) \div 2),
              Scan(opts, ((lo + hi) \div 2) + 1, hi))

\* best_option when the two loops have run
BestOption(course, d_top, d_bottom, slant, plate_options) ==
    LET n == Len(SegmentCounts) * Len(plate_options)
        opts == <<>> \o [k \in 1..n |->
                    Pass(course, d_top, d_bottom, slant, plate_options, k)]
    IN  Scan(opts, 1, n)

\* the entry appended when best_option is None
NoFitEntry(course) ==
    [course |-> course, segments |-> "N/A", fit |-> 0, plates |-> "No fit",
     plate_width |-> "N/A", plate_length |-> "N/A", waste |-> "N/A",
     gore_width |-> "N/A", plates_type |-> "str"]

\* plate_length / arc_width divides by 0.0 when the average radius is 0 and
\* some plate passes the width test
DividesByZero(d_top, d_bottom, slant, plate_options) ==
    /\ d_top + d_bottom = 0
    /\ \E k \in 1..Len(plate_options) : slant <= 100 * plate_options[k][1]

\* The UI's call at line 184.  The st.number_input of each course is created
\* inside the button branch, so on the run that reads it it holds value=4.
OverrideGores(n) == [k \in 1..n |-> 4]

CallEstimateFromUI ==
    /\ pc = "ui"
    /\ override_gores' = OverrideGores(num_courses)
    /\ caller' = "ui"
    /\ results' = <<>>
    /\ pc' = "estimate"
    /\ UNCHANGED <<diameter, angle, moc, error, total_slant, num_courses,
                   course_slant_height, used_width, break_diameters,
                   ui_results, best>>

\* One iteration of: for i in range(course_info["Number of Courses"])
EstimateCourse ==
    /\ pc = "estimate"
    /\ Len(results) < num_courses
    /\ LET i == Len(results)
           d_top == break_diameters[i + 1]
           d_bottom == break_diameters[i + 2]
           plate_options == get_plate_options(moc)
       IN  IF DividesByZero(d_top, d_bottom, course_slant_height, plate_options)
           THEN /\ pc' = "error"
                /\ error' = "ZeroDivisionError"
                /\ UNCHANGED results
           ELSE LET best_option == BestOption(i + 1, d_top, d_bottom,
                                              course_slant_height, plate_options)
                IN  /\ results' = Append(results,
                                         IF best_option # None THEN best_option
                                         ELSE NoFitEntry(i + 1))
                    /\ UNCHANGED <<pc, error>>
    /\ UNCHANGED <<diameter, angle, moc, total_slant, num_courses,
                   course_slant_height, used_width, break_diameters,
                   override_gores, caller, ui_results, best>>

\* return results, to line 184; the UI then calls optimize_plate_usage
\* (line 221), which calls estimate_plate_usage_per_course without override
ReturnToUI ==
    /\ pc = "estimate"
    /\ caller = "ui"
    /\ Len(results) = num_courses
    /\ ui_results' = results
    /\ override_gores' = <<>>
    /\ caller' = "optimize_plate_usage"
    /\ results' = <<>>
    /\ UNCHANGED <<diameter, angle, moc, pc, error, total_slant, num_courses,
                   course_slant_height, used_width, break_diameters, best>>

\* ----------------------------------------------- optimize_plate_usage
\* only the first entry summed
SumOfFirst(layout, f) == IF layout = <<>> THEN 0 ELSE Head(layout)[f]

\* sum(res[f] for res in course_layout)
RECURSIVE Sum(_, _)
Sum(layout, f) ==
    IF layout = <<>> THEN 0 ELSE Head(layout)[f] + Sum(Tail(layout), f)

\* the test inverted
NoneNoFit(course_layout) ==
    ~\E k \in 1..Len(course_layout) : course_layout[k].plates_type = "str"

\* any(isinstance(res["plates"], str) for res in course_layout)
AnyNoFit(course_layout) ==
    \E k \in 1..Len(course_layout) : course_layout[k].plates_type = "str"

Optimize ==
    /\ pc = "estimate"
    /\ caller = "optimize_plate_usage"
    /\ Len(results) = num_courses
    /\ best' = IF AnyNoFit(results)
               THEN None
               ELSE [total_plates |-> Sum(results, "plates"),
                     label |-> "mixed",
                     total_waste |-> Sum(results, "waste"),
                     course_layout |-> results]
    /\ pc' = "done"
    /\ UNCHANGED <<diameter, angle, moc, error, total_slant, num_courses,
                   course_slant_height, used_width, break_diameters,
                   override_gores, caller, results, ui_results>>

Next ==
    \/ SlantHeight
    \/ CourseLoopStep
    \/ CourseLoopExit
    \/ AppendBreak
    \/ ReturnCourseInfo
    \/ CallEstimateFromUI
    \/ EstimateCourse
    \/ ReturnToUI
    \/ Optimize

Spec == Init /\ [][Next]_vars

\* The while loop of calculate_courses_and_breaks runs in one thread: a step
\* that can be taken is taken
FairSpec == Spec /\ WF_vars(CourseLoopStep \/ CourseLoopExit)

\* ------------------------------------------------------------ properties
\* The widest plate of the material's catalog
WidestPlate(m) ==
    LET ws == {get_plate_options(m)[k][1] : k \in 1..Len(get_plate_options(m))}
    IN  CHOOSE w \in ws : \A u \in ws : u <= w

CourseInfoReturned == pc \in {"ui", "estimate", "done"}

\* A ConeSpec of the data model: diameter > 0, 0 < angleDegrees < 90
ValidConeSpec == diameter > 0 /\ angle > 0 /\ angle < 90

LoopExited == pc \in {"breaks", "ui", "estimate", "done"}

NumPasses == Len(SegmentCounts) * Len(get_plate_options(moc))

\* The option the k-th pass builds for course c of the current course_info
Candidate(c, k) ==
    Pass(c, break_diameters[c], break_diameters[c + 1], course_slant_height,
         get_plate_options(moc), k)

\* (plates, waste, |segments - 4|) of a is at most that of b
RankLessEq(a, b) ==
    \/ a.plates < b.plates
    \/ /\ a.plates = b.plates
       /\ \/ a.waste < b.waste
          \/ /\ a.waste = b.waste
             /\ Abs(a.segments - 4) <= Abs(b.segments - 4)

\* C1: the entry retained for a course is the least viable option by
\* (plates, waste, |segments - 4|)
C1_RetainsMinimumRank ==
    (ValidConeSpec /\ pc = "estimate" /\ Len(results) >= 1
        /\ results[Len(results)].plates_type = "int")
    => \A k \in 1..NumPasses :
          LET o == Candidate(Len(results), k)
          IN  o # None => RankLessEq(results[Len(results)], o)

\* C2: with override_gores supplied, every returned entry has the segment
\* count of its course's override value, one entry per course
C2_OverrideFixesSegments ==
    (ValidConeSpec /\ pc = "estimate" /\ caller = "ui")
    => /\ Len(results) <= num_courses
       /\ \A c \in 1..Len(results) :
             results[c].plates_type = "int"
             => results[c].segments = override_gores[c]

\* C3: num_courses is the least n >= 2 with total_slant / n <= the widest
\* catalog width, and the course slant height does not exceed that width
C3_LeastCourseCount ==
    LoopExited
    => /\ num_courses >= 2
       /\ total_slant <= 100 * WidestPlate(moc) * num_courses
       /\ \A n \in 2..(num_courses - 1) : total_slant > 100 * WidestPlate(moc) * n
       /\ course_slant_height <= 100 * WidestPlate(moc)

C3_Witness == pc = "ui" /\ num_courses > 2

\* C4: for diameter > 0 and 0 < angle < 90 the break diameters number
\* num_courses + 1, strictly decrease, start at the tank diameter and end at
\* the bottom diameter, each within one hundredth
C4_BreakDiametersDecrease ==
    (CourseInfoReturned /\ ValidConeSpec)
    => /\ Len(break_diameters) = num_courses + 1
       /\ \A k \in 1..num_courses : break_diameters[k] > break_diameters[k + 1]
       /\ Abs(break_diameters[1] - 100 * diameter) <= 1
       /\ Abs(break_diameters[num_courses + 1] - 100 * BOTTOM_DIAMETER) <= 1

\* Some (segments, plate) pair passes both fit tests for course c
CourseHasFit(c) ==
    \E k \in 1..Len(get_plate_options(moc)) :
        \E segs \in {2, 4, 6, 8, 10, 12} :
            LET plate == get_plate_options(moc)[k]
                v == break_diameters[c] + break_diameters[c + 1]
            IN  /\ course_slant_height <= 100 * plate[1]
                /\ v > 0
                /\ 200 * Pi[2] * segs * plate[2] >= Pi[1] * v

\* C5: a course without a viable (segments, plate) pair is entered as
\* "No fit"; optimize_plate_usage returns None exactly when some course is
\* without one, and totals otherwise
C5_NoFitFailsLayout ==
    pc = "done"
    => /\ \A c \in 1..num_courses :
             ~CourseHasFit(c)
             => /\ results[c].plates_type = "str"
                /\ results[c].plates = "No fit"
                /\ results[c].course = c
       /\ (best = None) <=> (\E c \in 1..num_courses : ~CourseHasFit(c))
       /\ best # None
          => \A c \in 1..num_courses :
                best.course_layout[c].plates_type = "int"

C5_Witness ==
    /\ pc = "done"
    /\ best = None
    /\ \E c \in 1..num_courses : results[c].plates_type = "int"

\* C6: every option that passes both fit tests has waste >= 0
C6_WasteNonNegative ==
    (pc = "estimate" /\ Len(results) >= 1)
    => \A k \in 1..NumPasses :
          LET o == Candidate(Len(results), k)
          IN  o # None => o.waste >= 0

\* The same with the sine of the angle positive, where
\* d_top - d_bottom <= 2 * course slant height <= 2 * plate_width
WasteNonNegativeForPositiveSine ==
    (pc = "estimate" /\ Len(results) >= 1 /\ Sin(angle)[1] > 0)
    => \A k \in 1..NumPasses :
          LET o == Candidate(Len(results), k)
          IN  o # None => o.waste >= 0

\* C7: every option that passes both fit tests has
\* fit = floor(plate_length / arc_width), plates = ceil(segments / fit),
\* and so fit * plates >= segments
C7_PlatesIsCeiling ==
    (pc = "estimate" /\ Len(results) >= 1)
    => \A k \in 1..NumPasses :
          LET o == Candidate(Len(results), k)
              v == break_diameters[Len(results)] + break_diameters[Len(results) + 1]
          IN  o # None
              => /\ o.fit >= 1
                 /\ o.fit * Pi[1] * v <= 200 * Pi[2] * o.segments * o.plate_length
                 /\ (o.fit + 1) * Pi[1] * v > 200 * Pi[2] * o.segments * o.plate_length
                 /\ o.fit * o.plates >= o.segments
                 /\ o.fit * (o.plates - 1) < o.segments

C7_Witness ==
    /\ pc = "estimate"
    /\ Len(results) >= 1
    /\ \E k \in 1..NumPasses :
          LET o == Candidate(Len(results), k)
          IN  o # None /\ o.fit >= 2 /\ o.plates >= 2 /\ o.segments % o.fit # 0

\* C8: angle 0 or a non-positive diameter never yields a course_info
C8_DomainErrorNoCourseInfo ==
    (angle = 0 \/ diameter <= 0) => ~CourseInfoReturned

\* layout[1][f] + ... + layout[n][f]
RECURSIVE TotalOf(_, _, _)
TotalOf(layout, f, n) ==
    IF n = 0 THEN 0 ELSE TotalOf(layout, f, n - 1) + layout[n][f]

\* C9: a returned result holds one entry per course, entry c for course c,
\* and its totals are the sums of its entries' plates and waste
C9_TotalsAreSums ==
    (pc = "done" /\ best # None)
    => /\ Len(best.course_layout) = num_courses
       /\ \A c \in 1..num_courses :
             /\ best.course_layout[c].course = c
             /\ best.course_layout[c] = results[c]
       /\ best.total_plates = TotalOf(best.course_layout, "plates", num_courses)
       /\ best.total_waste = TotalOf(best.course_layout, "waste", num_courses)

C9_Witness ==
    /\ pc = "done"
    /\ best # None
    /\ num_courses >= 3
    /\ best.total_plates > num_courses

\* C10: the course-count loop terminates, and on exit
\* total_slant / num_courses > max width is false
C10_LoopTerminates ==
    (pc = "loop")
    ~> (pc = "breaks" /\ ~(total_slant > 100 * WidestPlate(moc) * num_courses))

\* the loop has iterated and exited
C10_Witness == pc = "breaks" /\ total_slant > 0 /\ num_courses > 2

\* the loop has exited at once on a zero or negative total slant height
NonPositiveSlantExit == pc = "breaks" /\ total_slant <= 0 /\ num_courses = 2

=============================================================================
